---- MODULE Spec2Model ----
(***************************************************************************)
(* Bond yield calculator: BondService.calculate, validateBondInput,        *)
(* calculateBondMetrics and solvePeriodicYtm (backend/src/bond).           *)
(*                                                                         *)
(* A JavaScript number is an IEEE 754 binary64 value.  A finite number is  *)
(* the record [k |-> "fin", neg, m, e] of value (-1)^neg * m * 2^e, where  *)
(* the mantissa m is a natural number of exactly 53 bits, held as a        *)
(* little-endian sequence of 13-bit limbs (<<>> is zero).  Every           *)
(* arithmetic result is rounded to the nearest such value, ties to even.   *)
(* Subnormal numbers and the sign of zero are not modelled.                *)
(***************************************************************************)
EXTENDS Integers, Sequences, FiniteSets, TLC

\* ------------------------------------------------------------------------
\* number representation
\* ------------------------------------------------------------------------

\* one limb holds 13 bits
LimbBits == 13
Base == 8192

\* a mantissa has 53 bits
MantissaBits == 53

Limb(a, i) == IF i >= 1 /\ i <= Len(a) THEN a[i] ELSE 0

\* the sequence of the values of a function on 1..n
AsSeq(f) == f \o <<>>

\* the position of the highest non-zero limb (0 for the number zero)
MagTop(a) ==
    IF \A i \in 1..Len(a) : a[i] = 0 THEN 0
    ELSE CHOOSE i \in 1..Len(a) : a[i] # 0 /\ \A j \in (i + 1)..Len(a) : a[j] = 0

MagNorm(a) == IF a = <<>> \/ a[Len(a)] # 0 THEN a ELSE SubSeq(a, 1, MagTop(a))

\* the highest limb in which two numbers of the same length differ
MagCmpAt(a, b) ==
    CHOOSE i \in 1..Len(a) : a[i] # b[i] /\ \A j \in (i + 1)..Len(a) : a[j] = b[j]

MagCmp(a, b) ==
    IF Len(a) > Len(b) THEN 1
    ELSE IF Len(a) < Len(b) THEN -1
    ELSE IF a = b THEN 0
    ELSE IF a[MagCmpAt(a, b)] > b[MagCmpAt(a, b)] THEN 1
    ELSE -1

\* s holds the sums of the limbs, each below 2 * Base - 1: a carry enters
\* limb i when a lower limb produces one and every limb in between hands
\* it on
MagCarry(s, i) ==
    \E j \in 1..(i - 1) :
        s[j] >= Base /\ \A k \in (j + 1)..(i - 1) : s[k] >= Base - 1

MagAddFrom(s) ==
    MagNorm(AsSeq([i \in 1..(Len(s) + 1) |->
                      ((IF i > Len(s) THEN 0 ELSE s[i])
                       + (IF MagCarry(s, i) THEN 1 ELSE 0)) % Base]))

MagAdd(a, b) ==
    IF a = <<>> THEN b
    ELSE IF b = <<>> THEN a
    ELSE MagAddFrom(AsSeq([i \in 1..(IF Len(a) > Len(b) THEN Len(a) ELSE Len(b)) |->
                              Limb(a, i) + Limb(b, i)]))

\* a - b for a >= b: s holds the differences of the limbs, and limb i lends
\* when a lower limb borrows and every limb in between hands the borrow on
MagBorrow(s, i) ==
    \E j \in 1..(i - 1) :
        s[j] < 0 /\ \A k \in (j + 1)..(i - 1) : s[k] <= 0

MagSubFrom(s) ==
    MagNorm(AsSeq([i \in 1..Len(s) |->
                      (s[i] - (IF MagBorrow(s, i) THEN 1 ELSE 0) + Base) % Base]))

MagSub(a, b) ==
    IF b = <<>> THEN a
    ELSE MagSubFrom(AsSeq([i \in 1..Len(a) |-> a[i] - Limb(b, i)]))

\* the sum of a[i] * b[k + 1 - i] for i in lo..hi
RECURSIVE MagColSum(_, _, _, _, _)
MagColSum(a, b, k, lo, hi) ==
    IF lo > hi THEN 0
    ELSE IF lo = hi THEN a[lo] * b[k + 1 - lo]
    ELSE MagColSum(a, b, k, lo, (lo + hi) \div 2)
         + MagColSum(a, b, k, ((lo + hi) \div 2) + 1, hi)

\* column k of the product: every a[i] * b[j] with i + j = k + 1
MagCol(a, b, k) ==
    MagColSum(a, b, k, IF k + 1 - Len(b) > 1 THEN k + 1 - Len(b) ELSE 1,
              IF k < Len(a) THEN k ELSE Len(a))

\* the columns c, each below Base^3, are added up limb by limb: the lowest
\* limb of a column and the middle limb of the column below it
MagMulLow(c) ==
    MagAddFrom(AsSeq([i \in 1..(Len(c) + 1) |->
                         (IF i > Len(c) THEN 0 ELSE c[i] % Base)
                         + (IF i = 1 THEN 0 ELSE (c[i - 1] \div Base) % Base)]))

\* the highest limbs of the columns, two places up
MagMulHigh(c) == <<0, 0>> \o [i \in 1..Len(c) |-> c[i] \div (Base * Base)]

MagMulFrom(c) ==
    IF \A k \in 1..Len(c) : c[k] < Base * Base THEN MagMulLow(c)
    ELSE MagAdd(MagMulLow(c), MagMulHigh(c))

MagMul(a, b) ==
    IF a = <<>> \/ b = <<>> THEN <<>>
    ELSE MagMulFrom(AsSeq([k \in 1..(Len(a) + Len(b) - 1) |-> MagCol(a, b, k)]))

\* the quotient limb of r by b, for b <= r < b * Base and a top limb of b
\* that is at least Base / 2: the estimate hi from the top limbs is at most
\* 2 too large
MagQuotDigit(r, b, hi) ==
    IF MagCmp(MagMul(b, <<hi>>), r) <= 0 THEN hi
    ELSE IF MagCmp(MagMul(b, <<hi - 1>>), r) <= 0 THEN hi - 1
    ELSE hi - 2

MagQuotFrom(r, b, qh) == MagQuotDigit(r, b, IF qh > Base - 1 THEN Base - 1 ELSE qh)

MagQuotLimb(r, b) ==
    IF MagCmp(r, b) < 0 THEN 0
    ELSE MagQuotFrom(r, b, (Limb(r, Len(b) + 1) * Base + r[Len(b)]) \div b[Len(b)])

\* long division, most significant limb first: <<quotient, remainder>>; q
\* holds the quotient limbs above limb i and r the running remainder
RECURSIVE MagDivFrom(_, _, _, _, _)
\* the quotient limb d of the running remainder r1 is taken (0 when there
\* is no remainder)
MagDivTake(a, b, i, q, r1, d) ==
    IF r1 = <<>> \/ d = 0 THEN MagDivFrom(a, b, i - 1, <<0>> \o q, r1)
    ELSE MagDivFrom(a, b, i - 1, <<d>> \o q, MagSub(r1, MagMul(b, <<d>>)))

MagDivFrom(a, b, i, q, r) ==
    IF i = 0 THEN <<MagNorm(q), r>>
    ELSE MagDivTake(a, b, i, q, MagNorm(<<a[i]>> \o r),
                    MagQuotLimb(MagNorm(<<a[i]>> \o r), b))

\* <<a \div b, r>> for b # 0, where r = <<>> exactly when b divides a; both
\* are scaled so that b's top limb is >= Base / 2.  The top Len(b) - 1
\* limbs of a are below b, so they start the running remainder
MagDivAll(a, b) ==
    IF Len(a) < Len(b) THEN <<<<>>, a>>
    ELSE MagDivFrom(a, b, Len(a) - Len(b) + 1, <<>>,
                    SubSeq(a, Len(a) - Len(b) + 2, Len(a)))

MagDivScaled(a, b, s) == MagDivAll(MagMul(a, s), MagMul(b, s))

MagDiv(a, b) == MagDivScaled(a, b, <<Base \div (b[Len(b)] + 1)>>)

\* a natural number below 2^31 has at most three limbs
MagOfNat(n) == MagNorm(<<n % Base, (n \div Base) % Base, n \div (Base * Base)>>)

Zeros(n) == [j \in 1..n |-> 0]

\* the value of the limbs from j on (at most three of them)
NatOfMag(a, j) ==
    IF Len(a) > j + 2 THEN Base * Base * Base
    ELSE Limb(a, j) + Base * Limb(a, j + 1) + Base * Base * Limb(a, j + 2)

TwoTo(n) == 2 ^ n

\* the number of bits of a limb
BitsOf(n) == Cardinality({k \in 0..(LimbBits - 1) : n >= 2 ^ k})

BitLen(a) == IF a = <<>> THEN 0 ELSE LimbBits * (Len(a) - 1) + BitsOf(a[Len(a)])

\* a * 2^n: a limb takes the low bits of its own product by f = 2^(n % 13)
\* and the high bits of the product of the limb below
MagScale(a, f) ==
    MagNorm(AsSeq([j \in 1..(Len(a) + 1) |->
                      ((Limb(a, j) * f) % Base) + ((Limb(a, j - 1) * f) \div Base)]))

ShiftLeft(a, n) ==
    IF a = <<>> THEN a
    ELSE Zeros(n \div LimbBits) \o MagScale(a, TwoTo(n % LimbBits))

\* a \div 2^n
MagHalve(a, d) ==
    AsSeq([j \in 1..Len(a) |-> (a[j] \div d) + (Limb(a, j + 1) % d) * (Base \div d)])

ShiftRight(a, n) ==
    IF n \div LimbBits >= Len(a) THEN <<>>
    ELSE MagNorm(MagHalve(SubSeq(a, (n \div LimbBits) + 1, Len(a)),
                          TwoTo(n % LimbBits)))

IsOdd(a) == a # <<>> /\ a[1] % 2 = 1

\* ------------------------------------------------------------------------
\* numbers: finite binary64 values, NaN, +/-Infinity
\* ------------------------------------------------------------------------

NaN == [k |-> "nan", neg |-> FALSE, m |-> <<>>, e |-> 0]

Inf(neg) == [k |-> "inf", neg |-> neg, m |-> <<>>, e |-> 0]

Zero == [k |-> "fin", neg |-> FALSE, m |-> <<>>, e |-> 0]

\* the largest and smallest exponent of a 53-bit mantissa's lowest bit
MaxExponent == 971
MinExponent == -1074

\* a 53-bit mantissa q at exponent e
Finite(neg, q, e) ==
    IF e > MaxExponent THEN Inf(neg)
    ELSE IF e < MinExponent THEN Zero
    ELSE [k |-> "fin", neg |-> neg, m |-> q, e |-> e]

\* the nearest number to (-1)^neg * (a + s) * 2^e, where 0 <= s < 1 and
\* sticky says that s > 0; with sticky, a has more than 54 bits
\* a of n <= 53 bits is exact: its mantissa is filled up to 53 bits
Exact(neg, a, e, n) ==
    IF n = 0 THEN Zero
    ELSE Finite(neg, ShiftLeft(a, MantissaBits - n), e - (MantissaBits - n))

\* the rounded mantissa q1 may have grown to 54 bits
Carried(neg, q1, e) ==
    IF BitLen(q1) > MantissaBits THEN Finite(neg, ShiftRight(q1, 1), e + 1)
    ELSE Finite(neg, q1, e)

\* ties to even: c compares the bits that are cut off with a half
RoundsUp(c, sticky, odd) == c > 0 \/ (c = 0 /\ (sticky \/ odd))

\* q is a without its s lowest bits
Cut(neg, a, e, sticky, s, q) ==
    Carried(neg,
            IF RoundsUp(MagCmp(MagSub(a, ShiftLeft(q, s)), ShiftLeft(<<1>>, s - 1)),
                        sticky, IsOdd(q))
            THEN MagAdd(q, <<1>>) ELSE q,
            e + s)

RoundedBits(neg, a, e, sticky, n) ==
    IF n <= MantissaBits THEN Exact(neg, a, e, n)
    ELSE Cut(neg, a, e, sticky, n - MantissaBits, ShiftRight(a, n - MantissaBits))

Rounded(neg, a, e, sticky) == RoundedBits(neg, a, e, sticky, BitLen(a))

\* the number n, an integer of less than 53 bits
WholeOf(neg, a) == Exact(neg, a, 0, BitLen(a))

Whole(n) == WholeOf(n < 0, MagOfNat(IF n < 0 THEN -n ELSE n))

IsFinite(x) == x.k = "fin"

IsZero(x) == x.k = "fin" /\ x.m = <<>>

Neg(x) ==
    IF x.k = "nan" \/ IsZero(x) THEN x
    ELSE [x EXCEPT !.neg = ~x.neg]

Abs(x) == [x EXCEPT !.neg = FALSE]

\* how far apart two exponents may be before the smaller number is lost
\* in the sum (more than a mantissa and its rounding bits)
AlignLimit == 64

\* the mantissas a and b share the exponent e
AddAligned(xneg, yneg, a, b, e) ==
    Rounded(IF xneg = yneg \/ MagCmp(a, b) >= 0 THEN xneg ELSE yneg,
            IF xneg = yneg THEN MagAdd(a, b)
            ELSE IF MagCmp(a, b) >= 0 THEN MagSub(a, b)
            ELSE MagSub(b, a),
            e, FALSE)

AddAt(x, y, e) ==
    AddAligned(x.neg, y.neg, ShiftLeft(x.m, x.e - e), ShiftLeft(y.m, y.e - e), e)

\* a sum of finite numbers in which one is zero or is lost in the other
AddLost(x, y) ==
    IF IsZero(x) THEN y
    ELSE IF IsZero(y) THEN x
    ELSE IF x.e - y.e > AlignLimit THEN x
    ELSE y

AddFinite(x, y) ==
    IF x.m # <<>> /\ y.m # <<>> /\ x.e - y.e <= AlignLimit /\ y.e - x.e <= AlignLimit
    THEN AddAt(x, y, IF x.e < y.e THEN x.e ELSE y.e)
    ELSE AddLost(x, y)

\* a sum with NaN or an infinity in it
AddSpecial(x, y) ==
    IF x.k = "nan" \/ y.k = "nan" THEN NaN
    ELSE IF x.k = "inf"
         THEN (IF y.k = "inf" /\ y.neg # x.neg THEN NaN ELSE x)
    ELSE y

Add(x, y) ==
    IF x.k = "fin" /\ y.k = "fin" THEN AddFinite(x, y) ELSE AddSpecial(x, y)

Sub(x, y) == Add(x, Neg(y))

Mul(x, y) ==
    IF x.k = "nan" \/ y.k = "nan" THEN NaN
    ELSE IF x.k = "inf" \/ y.k = "inf"
         THEN (IF IsZero(x) \/ IsZero(y) THEN NaN ELSE Inf(x.neg # y.neg))
    ELSE Rounded(x.neg # y.neg, MagMul(x.m, y.m), x.e + y.e, FALSE)

\* the quotient's bits below the mantissa that division keeps for rounding
GuardBits == 56

\* qr is <<quotient, remainder>>: a remainder makes the quotient inexact
DivRounded(neg, qr, e) ==
    IF qr[2] = <<>> THEN Rounded(neg, qr[1], e, FALSE)
    ELSE Rounded(neg, qr[1], e, TRUE)

DivFinite(x, y) ==
    DivRounded(x.neg # y.neg, MagDiv(ShiftLeft(x.m, GuardBits), y.m),
               x.e - y.e - GuardBits)

\* a quotient with NaN, an infinity or zero in it: x/0 is +/-Infinity, 0/0
\* is NaN
DivSpecial(x, y) ==
    IF x.k = "nan" \/ y.k = "nan" THEN NaN
    ELSE IF x.k = "inf"
         THEN (IF y.k = "inf" THEN NaN ELSE Inf(x.neg # y.neg))
    ELSE IF y.k = "inf" THEN Zero
    ELSE IF IsZero(y) THEN (IF IsZero(x) THEN NaN ELSE Inf(x.neg))
    ELSE Zero

Div(x, y) ==
    IF x.k = "fin" /\ y.k = "fin" /\ x.m # <<>> /\ y.m # <<>> THEN DivFinite(x, y)
    ELSE DivSpecial(x, y)

\* |x| < |y| for finite non-zero x and y
MagnitudeLt(x, y) ==
    IF x.e # y.e THEN x.e < y.e ELSE MagCmp(x.m, y.m) < 0

\* x < y; every comparison with NaN is false
Lt(x, y) ==
    IF x.k = "nan" \/ y.k = "nan" THEN FALSE
    ELSE IF x.k = "inf" THEN x.neg /\ ~(y.k = "inf" /\ y.neg)
    ELSE IF y.k = "inf" THEN ~y.neg
    ELSE IF IsZero(x) THEN ~IsZero(y) /\ ~y.neg
    ELSE IF IsZero(y) THEN x.neg
    ELSE IF x.neg # y.neg THEN x.neg
    ELSE IF x.neg THEN MagnitudeLt(y, x)
    ELSE MagnitudeLt(x, y)

Eq(x, y) == x.k # "nan" /\ x = y

Le(x, y) == Lt(x, y) \/ Eq(x, y)

Gt(x, y) == Lt(y, x)

Max(x, y) == IF Lt(x, y) THEN y ELSE x

\* the decimal literal n * 10^-d, 0 <= d <= 22: the nearest number to it
RECURSIVE Pow10(_)
Pow10(d) ==
    IF d <= 9 THEN MagOfNat(10 ^ d)
    ELSE MagMul(MagOfNat(10 ^ 9), Pow10(d - 9))

Dec(n, d) == Div(Whole(n), Rounded(FALSE, Pow10(d), 0, FALSE))

\* the integer part and the fraction bits of a finite |x|, as naturals:
\* |x| = ip + fr / 2^(-x.e) when x.e < 0
IntPart(x) == IF x.e >= 0 THEN ShiftLeft(x.m, x.e) ELSE ShiftRight(x.m, -x.e)

FracPart(x) ==
    IF x.e >= 0 THEN <<>> ELSE MagSub(x.m, ShiftLeft(ShiftRight(x.m, -x.e), -x.e))

\* Math.floor of a finite number
\* Math.round of a finite number: the nearest integer, a half rounded
\* towards +Infinity
HalfUp(neg, ip, c) ==
    WholeOf(neg, IF (~neg /\ c >= 0) \/ (neg /\ c > 0) THEN MagAdd(ip, <<1>>) ELSE ip)

MathRound(x) ==
    IF x.e >= 0 THEN x
    ELSE HalfUp(x.neg, IntPart(x), MagCmp(FracPart(x), ShiftLeft(<<1>>, (-x.e) - 1)))

\* the integer value of a finite whole number (|x| < 2^31)
ToInt(x) == IF x.neg THEN -NatOfMag(IntPart(x), 1) ELSE NatOfMag(IntPart(x), 1)

\* Number.EPSILON = 2^-52
EPSILON == Exact(FALSE, <<1>>, -52, 1)

\* a rounding that treats a negative value as the mirror of a positive one
round2_HalfAway(value) ==
    IF value.k = "fin" /\ value.neg
    THEN Neg(Div(MathRound(Mul(Add(Abs(value), EPSILON), Whole(100))), Whole(100)))
    ELSE Div(MathRound(Mul(Add(value, EPSILON), Whole(100))), Whole(100))

round2(value) == Div(MathRound(Mul(Add(value, EPSILON), Whole(100))), Whole(100))

round6(value) ==
    Div(MathRound(Mul(Add(value, EPSILON), Whole(1000000))), Whole(1000000))

\* Math.pow(b, t) for a whole t >= 0, as t rounded multiplications (the
\* engine's pow may differ from this in the last bit of a result)
RECURSIVE Pow(_, _)
Pow(b, t) == IF t = 0 THEN Whole(1) ELSE Mul(Pow(b, t - 1), b)

\* ------------------------------------------------------------------------
\* dates (an instant: a calendar day and a minute of that day, in UTC)
\* ------------------------------------------------------------------------

IsLeap(y) == (y % 4 = 0 /\ y % 100 # 0) \/ y % 400 = 0

DaysInMonth(y, m) ==
    IF m = 2 THEN (IF IsLeap(y) THEN 29 ELSE 28)
    ELSE IF m \in {4, 6, 9, 11} THEN 30
    ELSE 31

InvalidDate == [valid |-> FALSE, y |-> 0, m |-> 0, d |-> 0, min |-> 0]

\* new Date(text): a settlementDate string is "" (kind "empty"), a date-only
\* ISO text y-m-d (kind "iso") or some other text (kind "other").  Node's
\* parser takes a month 1..12 and a day 1..31; a day past the month's end
\* runs over into the next month.  A date-only text is midnight UTC
NewDate(sd) ==
    IF sd.kind = "iso" /\ sd.m \in 1..12 /\ sd.d \in 1..31
    THEN IF sd.d <= DaysInMonth(sd.y, sd.m)
         THEN [valid |-> TRUE, y |-> sd.y, m |-> sd.m, d |-> sd.d, min |-> 0]
         ELSE [valid |-> TRUE, y |-> sd.y, m |-> sd.m + 1,
               d |-> sd.d - DaysInMonth(sd.y, sd.m), min |-> 0]
    ELSE InvalidDate

\* a string is truthy unless it is empty; undefined (kind "absent") is falsy
Truthy(sd) == sd.kind \notin {"absent", "empty"}

\* the minutes in a day
DayMinutes == 1440

\* the offsets from UTC, in minutes, of the time zones the process may run
\* in: America/Bogota, UTC and Asia/Karachi, none of which changes its offset
Zones == {-300, 0, 300}

PrevDay(date) ==
    IF date.d > 1 THEN [date EXCEPT !.d = @ - 1]
    ELSE IF date.m > 1
    THEN [date EXCEPT !.m = @ - 1, !.d = DaysInMonth(date.y, date.m - 1)]
    ELSE [date EXCEPT !.y = @ - 1, !.m = 12, !.d = 31]

NextDay(date) ==
    IF date.d < DaysInMonth(date.y, date.m) THEN [date EXCEPT !.d = @ + 1]
    ELSE IF date.m < 12 THEN [date EXCEPT !.m = @ + 1, !.d = 1]
    ELSE [date EXCEPT !.y = @ + 1, !.m = 1, !.d = 1]

\* the day and minute a clock that is offset minutes ahead shows for date;
\* with the zone's offset these are the local fields getDate, getMonth and
\* getFullYear read, and with its negative the way back to UTC
AtOffset(date, offset) ==
    IF date.min + offset < 0
    THEN [PrevDay(date) EXCEPT !.min = date.min + offset + DayMinutes]
    ELSE IF date.min + offset >= DayMinutes
    THEN [NextDay(date) EXCEPT !.min = date.min + offset - DayMinutes]
    ELSE [date EXCEPT !.min = date.min + offset]

\* setDate(1), setMonth(getMonth() + months), setDate(Math.min(day, lastDay))
\* on the local fields of a date
ClampedLocal(local, months) ==
    LET m0      == (local.m - 1) + months
        y1      == local.y + (m0 \div 12)
        m1      == (m0 % 12) + 1
        lastDay == DaysInMonth(y1, m1)
    IN  [valid |-> TRUE, y |-> y1, m |-> m1,
         d |-> IF local.d < lastDay THEN local.d ELSE lastDay, min |-> local.min]

addMonthsClamped(date, months, zone) ==
    AtOffset(ClampedLocal(AtOffset(date, zone), months), -zone)

\* toISOString().slice(0, 10): the text y-m-d of a valid date
IsoDate(date) == [kind |-> "iso", y |-> date.y, m |-> date.m, d |-> date.d]

\* ------------------------------------------------------------------------
\* pricing
\* ------------------------------------------------------------------------

\* passes t..periods of the loop and the statement after it: pv is the sum
\* of the passes before t, last is Math.pow(1 + periodicYield, t - 1) and
\* power is Math.pow(1 + periodicYield, t); a sum that is NaN stays NaN
RECURSIVE CouponPv(_, _, _, _, _, _, _, _)
CouponPv(base, couponPayment, faceValue, t, periods, last, power, pv) ==
    IF t > periods \/ pv.k = "nan" THEN Add(pv, Div(faceValue, last))
    ELSE CouponPv(base, couponPayment, faceValue, t + 1, periods, power,
                  Mul(power, base), Add(pv, Div(couponPayment, power)))

priceFromPeriodicYield(periodicYield, couponPayment, faceValue, periods) ==
    IF Lt(Abs(periodicYield), Dec(1, 12))
    THEN Add(Mul(couponPayment, Whole(periods)), faceValue)
    ELSE CouponPv(Add(Whole(1), periodicYield), couponPayment, faceValue, 1, periods,
                  Pow(Add(Whole(1), periodicYield), 0),
                  Pow(Add(Whole(1), periodicYield), 1), Zero)

\* passes t..periods of the loop and the statement after it: derivative is
\* the sum of the passes before t, last is Math.pow(1 + periodicYield, t)
\* and power is Math.pow(1 + periodicYield, t + 1)
RECURSIVE CouponDerivative(_, _, _, _, _, _, _, _)
CouponDerivative(base, couponPayment, faceValue, t, periods, last, power, derivative) ==
    IF t > periods \/ derivative.k = "nan"
    THEN Add(derivative, Div(Mul(Whole(-periods), faceValue), last))
    ELSE CouponDerivative(base, couponPayment, faceValue, t + 1, periods, power,
                          Mul(power, base),
                          Add(derivative, Div(Mul(Whole(-t), couponPayment), power)))

derivativePriceFromPeriodicYield(periodicYield, couponPayment, faceValue, periods) ==
    CouponDerivative(Add(Whole(1), periodicYield), couponPayment, faceValue, 1, periods,
                     Pow(Add(Whole(1), periodicYield), 1),
                     Pow(Add(Whole(1), periodicYield), 2), Zero)

\* ------------------------------------------------------------------------
\* validateBondInput
\* ------------------------------------------------------------------------

FaceValueMsg == "Face value must be positive."
CouponRateMsg == "Annual coupon rate must be zero or greater."
MarketPriceMsg == "Market price must be positive."
YearsMsg == "Years to maturity must be positive."
FrequencyMsg == "Coupon frequency must be annual or semi-annual."
SettlementMsg == "Settlement date is invalid."

\* a validator that stops at the first violated rule
validateBondInput_FirstOnly(in) ==
    IF ~IsFinite(in.faceValue) \/ Le(in.faceValue, Zero) THEN <<FaceValueMsg>>
    ELSE IF ~IsFinite(in.annualCouponRatePct) \/ Lt(in.annualCouponRatePct, Zero)
    THEN <<CouponRateMsg>>
    ELSE IF ~IsFinite(in.marketPrice) \/ Le(in.marketPrice, Zero) THEN <<MarketPriceMsg>>
    ELSE IF ~IsFinite(in.yearsToMaturity) \/ Le(in.yearsToMaturity, Zero) THEN <<YearsMsg>>
    ELSE IF in.couponFrequency \notin {"annual", "semi-annual"} THEN <<FrequencyMsg>>
    ELSE IF Truthy(in.settlementDate) /\ ~NewDate(in.settlementDate).valid
    THEN <<SettlementMsg>>
    ELSE <<>>

validateBondInput(in) ==
       (IF ~IsFinite(in.faceValue) \/ Le(in.faceValue, Zero)
        THEN <<FaceValueMsg>> ELSE <<>>)
    \o (IF ~IsFinite(in.annualCouponRatePct) \/ Lt(in.annualCouponRatePct, Zero)
        THEN <<CouponRateMsg>> ELSE <<>>)
    \o (IF ~IsFinite(in.marketPrice) \/ Le(in.marketPrice, Zero)
        THEN <<MarketPriceMsg>> ELSE <<>>)
    \o (IF ~IsFinite(in.yearsToMaturity) \/ Le(in.yearsToMaturity, Zero)
        THEN <<YearsMsg>> ELSE <<>>)
    \o (IF in.couponFrequency \notin {"annual", "semi-annual"}
        THEN <<FrequencyMsg>> ELSE <<>>)
    \o (IF Truthy(in.settlementDate) /\ ~NewDate(in.settlementDate).valid
        THEN <<SettlementMsg>> ELSE <<>>)

\* ------------------------------------------------------------------------
\* calculateBondMetrics: the result record
\* ------------------------------------------------------------------------

\* cumulativeInterest += couponPayment for the rows period..last, after the
\* rows before them gave cumulativeInterest (a sum that is NaN stays NaN)
RECURSIVE InterestFrom(_, _, _, _)
InterestFrom(couponPayment, period, last, cumulativeInterest) ==
    IF period > last \/ cumulativeInterest.k = "nan" THEN cumulativeInterest
    ELSE InterestFrom(couponPayment, period + 1, last,
                      Add(cumulativeInterest, couponPayment))

\* the reported coupon payment times the period
RunningInterest_OfRounded(couponPayment, period) ==
    Mul(round2(couponPayment), Whole(period))

\* cumulativeInterest += couponPayment, once per row
RunningInterest(couponPayment, period) == InterestFrom(couponPayment, 1, period, Zero)

\* a schedule whose last row keeps the principal
CashFlowRow_NeverRepaid(in, c, settlementDay, zone, period) ==
    [period             |-> period,
     paymentDate        |-> IsoDate(addMonthsClamped(settlementDay,
                                (12 \div c.frequencyPerYear) * period, zone)),
     couponPayment      |-> round2(c.couponPayment),
     cumulativeInterest |-> round2(RunningInterest(c.couponPayment, period)),
     remainingPrincipal |-> round2(in.faceValue)]

CashFlowRow(in, c, settlementDay, zone, period) ==
    [period             |-> period,
     paymentDate        |-> IsoDate(addMonthsClamped(settlementDay,
                                (12 \div c.frequencyPerYear) * period, zone)),
     couponPayment      |-> round2(c.couponPayment),
     cumulativeInterest |-> round2(RunningInterest(c.couponPayment, period)),
     remainingPrincipal |-> IF period = c.totalPeriods THEN Zero
                            ELSE round2(in.faceValue)]

\* a status taken from the rounded amount
TradingStatus_OfRounded(premiumDiscountAmount) ==
    IF Gt(round2(premiumDiscountAmount), Zero) THEN "premium"
    ELSE IF Lt(round2(premiumDiscountAmount), Zero) THEN "discount"
    ELSE "par"

\* premiumDiscountAmount > 0 ? 'premium' : premiumDiscountAmount < 0 ? 'discount' : 'par'
TradingStatus(premiumDiscountAmount) ==
    IF Gt(premiumDiscountAmount, Zero) THEN "premium"
    ELSE IF Lt(premiumDiscountAmount, Zero) THEN "discount"
    ELSE "par"

\* the reported coupon payment times the periods
TotalInterest_OfRounded(couponPayment, totalPeriods) ==
    Mul(round2(couponPayment), Whole(totalPeriods))

\* couponPayment * totalPeriods
TotalInterest(couponPayment, totalPeriods) == Mul(couponPayment, Whole(totalPeriods))

BondCalculationResult(in, c, settlementDay, zone, periodicYtm) ==
    LET premiumDiscountAmount == Sub(in.marketPrice, in.faceValue)
    IN  [inputs                |-> [in EXCEPT !.settlementDate = IsoDate(settlementDay)],
         annualCouponAmount    |-> round2(c.annualCouponAmount),
         couponPayment         |-> round2(c.couponPayment),
         totalPeriods          |-> c.totalPeriods,
         currentYieldPct       |-> round6(c.currentYieldPct),
         ytmPct                |-> round6(Mul(Mul(periodicYtm, Whole(c.frequencyPerYear)),
                                              Whole(100))),
         totalInterestEarned   |-> round2(TotalInterest(c.couponPayment, c.totalPeriods)),
         tradingStatus         |-> TradingStatus(premiumDiscountAmount),
         premiumDiscountAmount |-> round2(premiumDiscountAmount),
         cashFlowSchedule      |-> [p \in 1..c.totalPeriods |->
                                        CashFlowRow(in, c, settlementDay, zone, p)]]

\* the values calculateBondMetrics derives before it solves
PricingContext(in) ==
    LET frequencyPerYear   == IF in.couponFrequency = "annual" THEN 1 ELSE 2
        couponRateDecimal  == Div(in.annualCouponRatePct, Whole(100))
        annualCouponAmount == Mul(in.faceValue, couponRateDecimal)
    IN  [frequencyPerYear   |-> frequencyPerYear,
         totalPeriods       |-> ToInt(MathRound(Mul(in.yearsToMaturity,
                                                    Whole(frequencyPerYear)))),
         couponRateDecimal  |-> couponRateDecimal,
         annualCouponAmount |-> annualCouponAmount,
         couponPayment      |-> Div(annualCouponAmount, Whole(frequencyPerYear)),
         currentYieldPct    |-> Mul(Div(annualCouponAmount, in.marketPrice), Whole(100))]

\* a guard that lets a period count of 0 through
DegeneratePeriods_NegativeOnly(totalPeriods) == totalPeriods < 0

\* if (totalPeriods <= 0) throw
DegeneratePeriods(totalPeriods) == totalPeriods <= 0

NoContext ==
    [frequencyPerYear |-> 0, totalPeriods |-> 0, couponRateDecimal |-> Zero,
     annualCouponAmount |-> Zero, couponPayment |-> Zero, currentYieldPct |-> Zero]

\* ------------------------------------------------------------------------
\* solver constants
\* ------------------------------------------------------------------------

NewtonIterations == 50
ExpandLimit == 20
BisectionIterations == 200

PriceTolerance == Dec(1, 10)
StepTolerance == Dec(1, 12)
FlatDerivative == Dec(1, 12)
MinGuess == Dec(-95, 2)
NewtonFloor == Dec(-999999, 6)
NewtonCeiling == Whole(10)
BracketLow == Dec(-99, 2)
BracketHigh == Whole(1)

\* a solver that always starts from the lowest guess
InitialGuess_Lowest(couponRateDecimal, frequencyPerYear) == MinGuess

\* let x = Math.max(-0.95, couponRateDecimal / frequencyPerYear)
InitialGuess(couponRateDecimal, frequencyPerYear) ==
    Max(MinGuess, Div(couponRateDecimal, Whole(frequencyPerYear)))

\* ------------------------------------------------------------------------
\* state
\* ------------------------------------------------------------------------

VARIABLES
    pc,            \* idle, newton, bracket, expand, bisect, solved, done,
                   \* rejected, failed
    input,         \* the request body (dto)
    errors,        \* what validateBondInput returned
    calls,         \* how often calculateBondMetrics was entered
    ctx,           \* calculateBondMetrics' derived values
    settlement,    \* calculateBondMetrics' settlement date
    phase,         \* the solver phase last entered: none, newton, bisection
    x, i,          \* solvePeriodicYtm's locals
    low, high, fLow, fHigh, expandCount,
    periodicYtm,   \* what solvePeriodicYtm returned
    result         \* <<the result record>> once returned, else <<>>

vars == <<pc, input, errors, calls, ctx, settlement, phase, x, i,
          low, high, fLow, fHigh, expandCount, periodicYtm, result>>

solverVars == <<x, i, low, high, fLow, fHigh, expandCount>>

Residual(y) ==
    Sub(priceFromPeriodicYield(y, ctx.couponPayment, input.faceValue, ctx.totalPeriods),
        input.marketPrice)

\* solvePeriodicYtm returns v
Return(v) ==
    /\ periodicYtm' = v
    /\ pc' = "solved"

\* ------------------------------------------------------------------------
\* BondService.calculate, up to the solver's first iteration
\* ------------------------------------------------------------------------

\* a service that lets a single violation through
Rejects_SeveralOnly(errs) == Len(errs) > 1

\* if (errors.length > 0) throw
Rejects(errs) == Len(errs) > 0

\* calculateBondMetrics up to the solver's initial guess, c being the values
\* it derives from the input
EnterSolver(c) ==
    IF DegeneratePeriods(c.totalPeriods)
    THEN \* throw new Error('Total periods must be at least 1.')
         /\ pc' = "failed"
         /\ UNCHANGED <<ctx, phase, solverVars>>
    ELSE /\ ctx' = c
         /\ x' = InitialGuess(c.couponRateDecimal, c.frequencyPerYear)
         /\ i' = 0
         /\ phase' = "newton"
         /\ pc' = "newton"
         /\ UNCHANGED <<low, high, fLow, fHigh, expandCount>>

Calculate(dto) ==
    /\ pc = "idle"
    /\ input' = dto
    /\ errors' = validateBondInput(dto)
    /\ IF Rejects(validateBondInput(dto))
       THEN \* throw new BadRequestException({message, errors})
            /\ pc' = "rejected"
            /\ UNCHANGED <<calls, ctx, phase, solverVars>>
       ELSE \* return calculateBondMetrics(dto)
            /\ calls' = calls + 1
            /\ EnterSolver(PricingContext(dto))
    /\ UNCHANGED <<settlement, periodicYtm, result>>

\* ------------------------------------------------------------------------
\* solvePeriodicYtm
\* ------------------------------------------------------------------------

\* a Newton pass that accepts any finite next
NewtonStep_Unbounded(fx, dfx, next) ==
    IF Lt(Abs(fx), PriceTolerance)
    THEN Return(x) /\ UNCHANGED <<x, i>>
    ELSE IF ~IsFinite(dfx) \/ Lt(Abs(dfx), FlatDerivative)
    THEN pc' = "bracket" /\ UNCHANGED <<x, i, periodicYtm>>
    ELSE IF ~IsFinite(next)
    THEN pc' = "bracket" /\ UNCHANGED <<x, i, periodicYtm>>
    ELSE IF Lt(Abs(Sub(next, x)), StepTolerance)
    THEN Return(next) /\ UNCHANGED <<x, i>>
    ELSE /\ x' = next
         /\ i' = i + 1
         /\ pc' = IF i + 1 < NewtonIterations THEN "newton" ELSE "bracket"
         /\ UNCHANGED periodicYtm

\* a pass of the Newton loop after fx, dfx and next are computed; a break, or
\* the end of the loop, leads to the bracket
NewtonStep(fx, dfx, next) ==
    IF Lt(Abs(fx), PriceTolerance)
    THEN Return(x) /\ UNCHANGED <<x, i>>
    ELSE IF ~IsFinite(dfx) \/ Lt(Abs(dfx), FlatDerivative)
    THEN pc' = "bracket" /\ UNCHANGED <<x, i, periodicYtm>>
    ELSE IF ~IsFinite(next) \/ Le(next, NewtonFloor) \/ Gt(next, NewtonCeiling)
    THEN pc' = "bracket" /\ UNCHANGED <<x, i, periodicYtm>>
    ELSE IF Lt(Abs(Sub(next, x)), StepTolerance)
    THEN Return(next) /\ UNCHANGED <<x, i>>
    ELSE /\ x' = next
         /\ i' = i + 1
         /\ pc' = IF i + 1 < NewtonIterations THEN "newton" ELSE "bracket"
         /\ UNCHANGED periodicYtm

NewtonPass(fx, dfx) == NewtonStep(fx, dfx, Sub(x, Div(fx, dfx)))

\* one pass of the Newton loop
NewtonIteration ==
    /\ pc = "newton"
    /\ NewtonPass(Residual(x),
                  derivativePriceFromPeriodicYield(x, ctx.couponPayment,
                      input.faceValue, ctx.totalPeriods))
    /\ UNCHANGED <<input, errors, calls, ctx, settlement, phase,
                   low, high, fLow, fHigh, expandCount, result>>

\* the Newton loop is left without a return: the bracket is set up
StartBracket ==
    /\ pc = "bracket"
    /\ low' = BracketLow
    /\ high' = BracketHigh
    /\ fLow' = Residual(BracketLow)
    /\ fHigh' = Residual(BracketHigh)
    /\ expandCount' = 0
    /\ phase' = "bisection"
    /\ pc' = "expand"
    /\ UNCHANGED <<input, errors, calls, ctx, settlement, x, i, periodicYtm, result>>

\* one pass of the loop that doubles high
ExpandBracket ==
    /\ pc = "expand"
    /\ Gt(Mul(fLow, fHigh), Zero) /\ expandCount < ExpandLimit
    /\ high' = Mul(high, Whole(2))
    /\ fHigh' = Residual(Mul(high, Whole(2)))
    /\ expandCount' = expandCount + 1
    /\ UNCHANGED <<pc, input, errors, calls, ctx, settlement, phase, x, i,
                   low, fLow, periodicYtm, result>>

\* the doubling loop ends; the bisection loop starts
StartBisection ==
    /\ pc = "expand"
    /\ ~(Gt(Mul(fLow, fHigh), Zero) /\ expandCount < ExpandLimit)
    /\ i' = 0
    /\ pc' = "bisect"
    /\ UNCHANGED <<input, errors, calls, ctx, settlement, phase, x,
                   low, high, fLow, fHigh, expandCount, periodicYtm, result>>

\* a bisection loop that does not count the passes that move low
BisectionStep_Uncounted(mid, fMid) ==
    IF Lt(Abs(fMid), PriceTolerance)
    THEN Return(mid) /\ UNCHANGED <<i, low, high, fLow>>
    ELSE IF Le(Mul(fLow, fMid), Zero)
    THEN /\ high' = mid
         /\ i' = i + 1
         /\ UNCHANGED <<pc, low, fLow, periodicYtm>>
    ELSE /\ low' = mid
         /\ fLow' = fMid
         /\ UNCHANGED <<pc, i, high, periodicYtm>>

\* a pass of the bisection loop after mid and fMid are computed
BisectionStep(mid, fMid) ==
    IF Lt(Abs(fMid), PriceTolerance)
    THEN Return(mid) /\ UNCHANGED <<i, low, high, fLow>>
    ELSE IF Le(Mul(fLow, fMid), Zero)
    THEN /\ high' = mid
         /\ i' = i + 1
         /\ UNCHANGED <<pc, low, fLow, periodicYtm>>
    ELSE /\ low' = mid
         /\ fLow' = fMid
         /\ i' = i + 1
         /\ UNCHANGED <<pc, high, periodicYtm>>

\* a pass that takes the stored residual at low for the residual at mid
BisectionPass_StaleResidual(mid) == BisectionStep(mid, fLow)

\* const fMid = priceFromPeriodicYield(mid, ...) - marketPrice
BisectionPass(mid) == BisectionStep(mid, Residual(mid))

\* one pass of the bisection loop
BisectionIteration ==
    /\ pc = "bisect"
    /\ i < BisectionIterations
    /\ BisectionPass(Div(Add(low, high), Whole(2)))
    /\ UNCHANGED <<input, errors, calls, ctx, settlement, phase,
                   x, fHigh, expandCount, result>>

\* a solver that gives up with an error after the last bisection pass
BisectionExhausted_Throws ==
    /\ pc = "bisect"
    /\ i >= BisectionIterations
    /\ pc' = "failed"
    /\ UNCHANGED <<input, errors, calls, ctx, settlement, phase, solverVars,
                   periodicYtm, result>>

\* the bisection loop ran out: return (low + high) / 2
BisectionExhausted ==
    /\ pc = "bisect"
    /\ i >= BisectionIterations
    /\ Return(Div(Add(low, high), Whole(2)))
    /\ UNCHANGED <<input, errors, calls, ctx, settlement, phase, solverVars, result>>

\* calculateBondMetrics after the solver: the settlement date (today, read
\* from the clock, without a settlementDate), the schedule and the record
BuildResult(now, zone) ==
    /\ pc = "solved"
    /\ settlement' = IF Truthy(input.settlementDate)
                     THEN NewDate(input.settlementDate)
                     ELSE now
    /\ result' = <<BondCalculationResult(input, ctx,
                       IF Truthy(input.settlementDate)
                       THEN NewDate(input.settlementDate)
                       ELSE now,
                       zone, periodicYtm)>>
    /\ pc' = "done"
    /\ UNCHANGED <<input, errors, calls, ctx, phase, solverVars, periodicYtm>>

\* ------------------------------------------------------------------------
\* requests
\* ------------------------------------------------------------------------

\* whole years to maturity run up to MaxYears
MaxYears == 2

\* the maturity of the one long bond, whose Newton loop uses all its passes
LongYears == 21

Absent == [kind |-> "absent", y |-> 0, m |-> 0, d |-> 0]
EmptyText == [kind |-> "empty", y |-> 0, m |-> 0, d |-> 0]
OtherText == [kind |-> "other", y |-> 0, m |-> 0, d |-> 0]
Iso(y, m, d) == [kind |-> "iso", y |-> y, m |-> m, d |-> d]

Bond(faceValue, annualCouponRatePct, marketPrice, yearsToMaturity, couponFrequency, settlementDate) ==
    [faceValue           |-> faceValue,
     annualCouponRatePct |-> annualCouponRatePct,
     marketPrice         |-> marketPrice,
     yearsToMaturity     |-> yearsToMaturity,
     couponFrequency     |-> couponFrequency,
     settlementDate      |-> settlementDate]

\* malformed and well-formed values of every field, in every combination
MalformedInputs ==
    {Bond(f, r, p, y, q, s) :
        f \in {NaN, Inf(FALSE), Zero, Whole(-1), Whole(100)},
        r \in {NaN, Whole(-1), Zero, Whole(5)},
        p \in {Inf(TRUE), Zero, Whole(-95), Whole(95)},
        y \in {NaN, Zero, Whole(-1), Whole(1)},
        q \in {"annual", "semi-annual", "monthly"},
        s \in {Absent, EmptyText, OtherText, Iso(2026, 2, 23), Iso(2026, 13, 45)}}

\* discount, par and premium bonds over whole years
GridInputs ==
    {Bond(Whole(100), r, p, Whole(y), q, Iso(2026, 2, 23)) :
        r \in {Zero, Whole(5), Whole(8)},
        p \in {Whole(95), Whole(100), Whole(108)},
        y \in 1..MaxYears,
        q \in {"annual", "semi-annual"}}

\* fractional maturities, sub-cent amounts and extreme prices
EdgeInputs ==
    {Bond(Whole(100), Whole(5), Whole(95), y, q, Iso(2024, 8, 31)) :
        y \in {Dec(4, 1), Dec(2, 1), Dec(25, 2), Dec(5, 1), Dec(15, 1), Dec(25, 1)},
        q \in {"annual", "semi-annual"}}
    \cup
    {Bond(Whole(100), Whole(5), p, Whole(1), "annual", Iso(2026, 2, 23)) :
        p \in {Dec(100001, 3), Dec(99999, 3), Dec(100005, 3), Dec(99995, 3)}}
    \cup
    {Bond(Dec(1001, 1), Whole(5), Whole(100), Whole(1), "semi-annual", Iso(2026, 2, 23)),
     Bond(Dec(1001, 1), Whole(5), Whole(100), Whole(2), "semi-annual", Iso(2026, 2, 23)),
     Bond(Whole(250), Dec(309, 2), Whole(240), Whole(3), "semi-annual", Iso(2026, 2, 23)),
     Bond(Whole(1000000), Dec(33, 1), Whole(1000000), Whole(2), "annual", Iso(2026, 2, 23)),
     Bond(Whole(67), Whole(1), Whole(60), Dec(15, 1), "semi-annual", Iso(2026, 2, 23)),
     Bond(Whole(1000), Whole(5), Dec(999999999, 6), Whole(1), "annual", Iso(2026, 2, 23)),
     Bond(Dec(1, 11), Whole(5), Dec(5, 12), Whole(1), "annual", Iso(2026, 2, 23)),
     Bond(Whole(1), Zero, Whole(150), Whole(1), "annual", Iso(2026, 2, 23)),
     Bond(Dec(100125, 3), Whole(5), Whole(100), Whole(1), "annual", Iso(2026, 2, 23)),
     Bond(Whole(100), Whole(5), Dec(100125, 3), Whole(1), "annual", Iso(2026, 2, 23)),
     Bond(Whole(100), Whole(1), Whole(512), Whole(1), "annual", Iso(2026, 2, 23)),
     Bond(Whole(1000000), Whole(5), Whole(10000000), Dec(5, 1), "semi-annual", Iso(2026, 2, 23)),
     Bond(Mul(Whole(1000000), Whole(1000000)), Zero, Dec(1, 10), Whole(LongYears), "annual", Iso(2026, 2, 23))}

Inputs == MalformedInputs \cup GridInputs \cup EdgeInputs

\* what new Date() may read
Clock ==
    {[valid |-> TRUE, y |-> 2026, m |-> 11, d |-> 5, min |-> 130],
     [valid |-> TRUE, y |-> 2024, m |-> 1, d |-> 31, min |-> 1410],
     [valid |-> TRUE, y |-> 2024, m |-> 8, d |-> 30, min |-> 1320]}

\* ------------------------------------------------------------------------
\* specification
\* ------------------------------------------------------------------------

Init ==
    /\ pc = "idle"
    /\ input = Bond(Zero, Zero, Zero, Zero, "annual", Absent)
    /\ errors = <<>>
    /\ calls = 0
    /\ ctx = NoContext
    /\ settlement = InvalidDate
    /\ phase = "none"
    /\ x = Zero
    /\ i = 0
    /\ low = Zero
    /\ high = Zero
    /\ fLow = Zero
    /\ fHigh = Zero
    /\ expandCount = 0
    /\ periodicYtm = Zero
    /\ result = <<>>

Next ==
    \/ \E dto \in Inputs : Calculate(dto)
    \/ NewtonIteration
    \/ StartBracket
    \/ ExpandBracket
    \/ StartBisection
    \/ BisectionIteration
    \/ BisectionExhausted
    \/ \E now \in Clock, zone \in Zones : BuildResult(now, zone)

Spec == Init /\ [][Next]_vars

\* ------------------------------------------------------------------------
\* properties
\* ------------------------------------------------------------------------

Requested == pc # "idle"

Returned == result # <<>>

\* C1: BondService.calculate: when validateBondInput returns a non-empty list
\* the request ends rejected with that list, calculateBondMetrics is never
\* entered and no result record exists; when the list is empty
\* calculateBondMetrics is entered exactly once, and what it returns (or its
\* failure) is the request's outcome.
C1_RejectOrCalculateOnce ==
    Requested =>
        /\ errors = validateBondInput(input)
        /\ errors # <<>> =>
               /\ pc = "rejected"
               /\ calls = 0
               /\ result = <<>>
               /\ ctx = NoContext /\ phase = "none"
        /\ errors = <<>> =>
               /\ pc \in {"newton", "bracket", "expand", "bisect", "solved",
                          "done", "failed"}
               /\ calls = 1
               /\ pc = "done" <=> result # <<>>
               /\ pc = "done" =>
                      \E zone \in Zones :
                          result = <<BondCalculationResult(input, ctx, settlement,
                                                           zone, periodicYtm)>>

C1_Witness == pc = "rejected" /\ Len(errors) >= 2 /\ calls = 0

\* a settlement date is given when the request carries the field at all
Given(sd) == sd.kind # "absent"

\* a settlement date is non-empty when it is given and is not the text ""
NonEmpty(sd) == sd.kind \notin {"absent", "empty"}

FaceValueOk(in) == IsFinite(in.faceValue) /\ Gt(in.faceValue, Zero)
CouponRateOk(in) == IsFinite(in.annualCouponRatePct) /\ ~Lt(in.annualCouponRatePct, Zero)
MarketPriceOk(in) == IsFinite(in.marketPrice) /\ Gt(in.marketPrice, Zero)
YearsOk(in) == IsFinite(in.yearsToMaturity) /\ Gt(in.yearsToMaturity, Zero)
FrequencyOk(in) == in.couponFrequency = "annual" \/ in.couponFrequency = "semi-annual"

\* the messages of the violated rules, in the rules' order
Messages(faceOk, rateOk, priceOk, yearsOk, frequencyOk, settlementOk) ==
    LET rule == <<[ok |-> faceOk, msg |-> FaceValueMsg],
                  [ok |-> rateOk, msg |-> CouponRateMsg],
                  [ok |-> priceOk, msg |-> MarketPriceMsg],
                  [ok |-> yearsOk, msg |-> YearsMsg],
                  [ok |-> frequencyOk, msg |-> FrequencyMsg],
                  [ok |-> settlementOk, msg |-> SettlementMsg]>>
        violated == SelectSeq(rule, LAMBDA r : ~r.ok)
    IN  [j \in 1..Len(violated) |-> violated[j].msg]

\* C2 as stated: the list holds one message per violated rule, in the fixed
\* order, where the settlement rule is that a date that is present parses as a
\* valid date; the list is empty exactly when all six rules hold.
C2_AsStated ==
    Requested =>
        LET settlementOk == Given(input.settlementDate) =>
                                NewDate(input.settlementDate).valid
        IN  /\ errors = Messages(FaceValueOk(input), CouponRateOk(input),
                                 MarketPriceOk(input), YearsOk(input),
                                 FrequencyOk(input), settlementOk)
            /\ errors = <<>> <=>
                   /\ FaceValueOk(input) /\ CouponRateOk(input) /\ MarketPriceOk(input)
                   /\ YearsOk(input) /\ FrequencyOk(input) /\ settlementOk

\* C2: validateBondInput checks all six rules independently: the list holds
\* exactly one message per violated rule and none for a satisfied rule, in the
\* order face value, coupon rate, market price, years, frequency, settlement
\* date; it is empty exactly when face value, market price and years are
\* finite and > 0, the coupon rate is finite and >= 0, the frequency is
\* 'annual' or 'semi-annual', and a non-empty settlement date parses as a
\* valid date (the empty text is treated like an absent date).
C2_IndependentRules ==
    Requested =>
        LET settlementOk == NonEmpty(input.settlementDate) =>
                                NewDate(input.settlementDate).valid
        IN  /\ errors = Messages(FaceValueOk(input), CouponRateOk(input),
                                 MarketPriceOk(input), YearsOk(input),
                                 FrequencyOk(input), settlementOk)
            /\ errors = <<>> <=>
                   /\ FaceValueOk(input) /\ CouponRateOk(input) /\ MarketPriceOk(input)
                   /\ YearsOk(input) /\ FrequencyOk(input) /\ settlementOk

C2_Witness ==
    \/ pc = "rejected" /\ Len(errors) = 6
    \/ Requested /\ errors = <<>> /\ input.settlementDate = EmptyText

\* years x frequency, as calculateBondMetrics multiplies them
PeriodProduct(in) ==
    Mul(in.yearsToMaturity, Whole(IF in.couponFrequency = "annual" THEN 1 ELSE 2))

\* C3: an input that validateBondInput accepts but whose years x frequency
\* rounds to 0 makes calculateBondMetrics fail before the solver is entered
\* and before any schedule exists; every returned record has totalPeriods >= 1.
C3_DegeneratePeriodsFail ==
    /\ (Requested /\ validateBondInput(input) = <<>>
            /\ Lt(PeriodProduct(input), Dec(5, 1))) =>
           /\ errors = <<>>
           /\ pc = "failed"
           /\ phase = "none"
           /\ result = <<>>
    /\ Returned =>
           /\ result[1].totalPeriods >= 1
           /\ Len(result[1].cashFlowSchedule) >= 1
    /\ pc \in {"newton", "bracket", "expand", "bisect", "solved"} =>
           ctx.totalPeriods >= 1

C3_Witness ==
    /\ pc = "failed"
    /\ errors = <<>>
    /\ input.yearsToMaturity = Dec(4, 1)
    /\ input.couponFrequency = "annual"

\* the fields of the response
ResponseFields ==
    {"inputs", "annualCouponAmount", "couponPayment", "totalPeriods",
     "currentYieldPct", "ytmPct", "effectiveAnnualYieldPct", "totalInterestEarned",
     "tradingStatus", "premiumDiscountAmount", "cashFlowSchedule"}

\* ((1 + periodicYield)^frequency - 1) x 100
EffectiveAnnualYield(periodicYield, frequencyPerYear) ==
    Mul(Sub(Pow(Add(Whole(1), periodicYield), frequencyPerYear), Whole(1)), Whole(100))

\* C4: every returned record has all response fields, effectiveAnnualYieldPct
\* among them, and that field is ((1 + periodicYield)^frequency - 1) x 100 of
\* the solved periodic yield, to the 6 decimals the yields are reported with.
C4_EffectiveAnnualYieldReported ==
    Returned =>
        /\ ResponseFields \subseteq DOMAIN result[1]
        /\ Le(Abs(Sub(result[1].effectiveAnnualYieldPct,
                      EffectiveAnnualYield(periodicYtm, ctx.frequencyPerYear))),
              Dec(1, 6))

\* a difference of half a cent, with room for the error of the arithmetic
HalfCent == Dec(5000001, 9)

\* r is a whole number of cents
IsCents(r) == Eq(r, Div(MathRound(Mul(r, Whole(100))), Whole(100)))

\* the whole number of cents in r
Cents(r) == ToInt(MathRound(Mul(r, Whole(100))))

\* r is v rounded to 2 decimals
Rounded2(v, r) == IsCents(r) /\ Le(Abs(Sub(r, v)), HalfCent)

\* the status follows the comparison of marketPrice with faceValue
StatusMatchesPrices ==
    /\ result[1].tradingStatus = "premium" <=> Gt(input.marketPrice, input.faceValue)
    /\ result[1].tradingStatus = "discount" <=> Lt(input.marketPrice, input.faceValue)
    /\ result[1].tradingStatus = "par" <=> Eq(input.marketPrice, input.faceValue)

\* C5 as stated: the status follows the prices, and premiumDiscountAmount is
\* marketPrice - faceValue rounded to 2 decimals, > 0 for premium, < 0 for
\* discount and 0 for par.
C5_AsStated ==
    Returned =>
        /\ StatusMatchesPrices
        /\ Rounded2(Sub(input.marketPrice, input.faceValue),
                    result[1].premiumDiscountAmount)
        /\ result[1].tradingStatus = "premium" =>
               Gt(result[1].premiumDiscountAmount, Zero)
        /\ result[1].tradingStatus = "discount" =>
               Lt(result[1].premiumDiscountAmount, Zero)
        /\ result[1].tradingStatus = "par" => IsZero(result[1].premiumDiscountAmount)

\* C5: tradingStatus is 'premium' iff marketPrice > faceValue, 'discount' iff
\* marketPrice < faceValue and 'par' iff they are equal; premiumDiscountAmount
\* is marketPrice - faceValue rounded to 2 decimals, and its sign never
\* contradicts the status: >= 0 for premium, <= 0 for discount, 0 for par.
C5_StatusAndAmount ==
    Returned =>
        /\ StatusMatchesPrices
        /\ Rounded2(Sub(input.marketPrice, input.faceValue),
                    result[1].premiumDiscountAmount)
        /\ result[1].tradingStatus = "premium" =>
               Le(Zero, result[1].premiumDiscountAmount)
        /\ result[1].tradingStatus = "discount" =>
               Le(result[1].premiumDiscountAmount, Zero)
        /\ result[1].tradingStatus = "par" => IsZero(result[1].premiumDiscountAmount)

C5_Witness ==
    /\ Returned
    /\ result[1].tradingStatus = "premium"
    /\ IsZero(result[1].premiumDiscountAmount)

\* the rows of the returned schedule
Rows == result[1].cashFlowSchedule

\* C6: with N = totalPeriods = round(years x frequency), the schedule has
\* exactly N rows, row p has period p, remainingPrincipal is faceValue rounded
\* to 2 decimals in every row before the last and is 0 in the last row, which
\* is the only row when N = 1.
C6_ScheduleShape ==
    Returned =>
        LET N == result[1].totalPeriods
        IN  /\ Le(Abs(Sub(PeriodProduct(input), Whole(N))), Dec(5, 1))
            /\ DOMAIN Rows = 1..N
            /\ \A p \in 1..N :
                   /\ Rows[p].period = p
                   /\ p < N => Rounded2(input.faceValue, Rows[p].remainingPrincipal)
                   /\ p = N => IsZero(Rows[p].remainingPrincipal)

C6_Witness ==
    /\ Returned
    /\ result[1].totalPeriods = 5
    /\ Len(Rows) = 5
    /\ ~IsZero(Rows[4].remainingPrincipal)

\* (faceValue x rate / 100) / frequency
StatedCoupon ==
    Div(Div(Mul(input.faceValue, input.annualCouponRatePct), Whole(100)),
        Whole(ctx.frequencyPerYear))

\* every row's couponPayment is the one constant, the stated coupon rounded
SameCoupon ==
    \A p \in DOMAIN Rows :
        /\ Rows[p].couponPayment = Rows[1].couponPayment
        /\ Rounded2(StatedCoupon, Rows[p].couponPayment)

\* C7 as stated: every row's couponPayment is the one rounded constant,
\* cumulativeInterest grows strictly from row to row and is, in every row,
\* that row's couponPayment times its period.
C7_AsStated ==
    Returned =>
        /\ SameCoupon
        /\ \A p \in DOMAIN Rows :
               /\ p > 1 => Lt(Rows[p - 1].cumulativeInterest, Rows[p].cumulativeInterest)
               /\ Cents(Rows[p].cumulativeInterest) = Cents(Rows[p].couponPayment) * p

\* C7: every row's couponPayment is the one constant (faceValue x rate/100) /
\* frequency rounded to 2 decimals; cumulativeInterest never decreases from
\* row to row, grows strictly when the unrounded coupon payment is at least
\* 0.01, and is in every row the unrounded coupon payment summed over the
\* periods so far, rounded to 2 decimals.
C7_RunningInterest ==
    Returned =>
        /\ SameCoupon
        /\ \A p \in DOMAIN Rows :
               /\ p > 1 => Le(Rows[p - 1].cumulativeInterest, Rows[p].cumulativeInterest)
               /\ (p > 1 /\ Le(Dec(1, 2), ctx.couponPayment)) =>
                      Lt(Rows[p - 1].cumulativeInterest, Rows[p].cumulativeInterest)
               /\ Rounded2(Mul(ctx.couponPayment, Whole(p)), Rows[p].cumulativeInterest)

C7_Witness ==
    /\ Returned
    /\ Len(Rows) >= 2
    /\ ~IsZero(Rows[1].cumulativeInterest)
    /\ Cents(Rows[Len(Rows)].cumulativeInterest)
           # Cents(Rows[Len(Rows)].couponPayment) * Len(Rows)

\* C8 as stated: totalInterestEarned is the reported couponPayment times
\* totalPeriods, and is the last row's cumulativeInterest.
C8_AsStated ==
    Returned =>
        /\ Cents(result[1].totalInterestEarned)
               = Cents(result[1].couponPayment) * result[1].totalPeriods
        /\ result[1].totalInterestEarned = Rows[Len(Rows)].cumulativeInterest

\* C8: totalInterestEarned is the unrounded coupon payment times totalPeriods,
\* rounded to 2 decimals; it is within one cent of the last row's
\* cumulativeInterest, which sums the same payments one by one, and equal to
\* it when the coupon payment is a whole number of cents.
C8_TotalInterest ==
    Returned =>
        /\ Rounded2(Mul(ctx.couponPayment, Whole(result[1].totalPeriods)),
                    result[1].totalInterestEarned)
        /\ Cents(result[1].totalInterestEarned)
               - Cents(Rows[Len(Rows)].cumulativeInterest) \in {-1, 0, 1}
        /\ IsCents(ctx.couponPayment) =>
               /\ result[1].totalInterestEarned = Rows[Len(Rows)].cumulativeInterest
               /\ Cents(result[1].totalInterestEarned)
                      = Cents(result[1].couponPayment) * result[1].totalPeriods

C8_Witness ==
    /\ Returned
    /\ result[1].totalPeriods = 6
    /\ result[1].totalInterestEarned # Rows[Len(Rows)].cumulativeInterest

\* C9: for a valid input, marketPrice < faceValue gives status 'discount' and
\* ytmPct > currentYieldPct; marketPrice > faceValue gives status 'premium'
\* and ytmPct < currentYieldPct.
C9_YieldOrdering ==
    Returned =>
        /\ Lt(input.marketPrice, input.faceValue) =>
               /\ result[1].tradingStatus = "discount"
               /\ Gt(result[1].ytmPct, result[1].currentYieldPct)
        /\ Gt(input.marketPrice, input.faceValue) =>
               /\ result[1].tradingStatus = "premium"
               /\ Lt(result[1].ytmPct, result[1].currentYieldPct)

\* an annual-coupon bond priced exactly at face value
ParAnnual == input.couponFrequency = "annual" /\ Eq(input.marketPrice, input.faceValue)

\* C10: for an annual-coupon bond priced at face value the solver returns from
\* its first Newton pass and never enters bisection; ytmPct is within 1e-4 of
\* the annual coupon rate, tradingStatus is 'par' and premiumDiscountAmount 0.
C10_ParAnnualBond ==
    (Requested /\ errors = <<>> /\ ParAnnual) =>
        /\ pc \notin {"bracket", "expand", "bisect"}
        /\ Returned =>
               /\ phase = "newton" /\ i = 0
               /\ Le(Abs(Sub(result[1].ytmPct, input.annualCouponRatePct)), Dec(1, 4))
               /\ result[1].tradingStatus = "par"
               /\ IsZero(result[1].premiumDiscountAmount)

C10_Witness ==
    /\ Returned
    /\ ParAnnual
    /\ Gt(input.annualCouponRatePct, Zero)
    /\ result[1].totalPeriods >= 2
    /\ Eq(result[1].ytmPct, input.annualCouponRatePct)

\* the most steps a request can still take: 50 Newton passes, the bracket,
\* 20 doublings, the start of the bisection, 200 bisection passes, its end
\* and the record
StepsLeft ==
    CASE pc = "idle" -> 275
      [] pc = "newton" -> 274 - i
      [] pc = "bracket" -> 224
      [] pc = "expand" -> 223 - expandCount
      [] pc = "bisect" -> 202 - i
      [] pc = "solved" -> 1
      [] OTHER -> 0

\* the loops stay within 50, 20 and 200 passes
SolverWithinBounds ==
    /\ expandCount <= 20
    /\ pc = "newton" => i < 50
    /\ pc \in {"bracket", "expand"} => i <= 50
    /\ pc = "bisect" => i <= 200
    /\ (pc = "solved" /\ phase = "newton") => i < 50
    /\ (pc = "solved" /\ phase = "bisection") => i <= 200
    /\ StepsLeft >= 0

\* every step uses up one of the steps that are left: a pass of a loop is
\* counted, and no loop is entered again once it is left
SolverAdvances == StepsLeft' < StepsLeft

\* C11: solvePeriodicYtm terminates for every input: at most 50 Newton
\* passes, then at most 20 doublings of high and at most 200 bisection
\* passes, each pass counted and no loop entered again once left; after that
\* the value is returned.
C11_SolverTerminates == []SolverWithinBounds /\ [][SolverAdvances]_vars

C11_Witness ==
    /\ pc = "solved"
    /\ phase = "bisection"
    /\ expandCount = 20
    /\ i = 200

\* every rounded output of the returned record with the value it is rounded
\* from, the steps per unit (100 or 1000000) and the power of two by which a
\* value halfway between two steps is an odd whole number (8 or 128)
RoundedOutputs ==
    LET money(v, r) == [v |-> v, r |-> r, scale |-> 100, unit |-> 8]
        yield(v, r) == [v |-> v, r |-> r, scale |-> 1000000, unit |-> 128]
    IN  {money(ctx.annualCouponAmount, result[1].annualCouponAmount),
         money(ctx.couponPayment, result[1].couponPayment),
         money(Mul(ctx.couponPayment, Whole(ctx.totalPeriods)),
               result[1].totalInterestEarned),
         money(Sub(input.marketPrice, input.faceValue), result[1].premiumDiscountAmount),
         yield(ctx.currentYieldPct, result[1].currentYieldPct),
         yield(Mul(Mul(periodicYtm, Whole(ctx.frequencyPerYear)), Whole(100)),
               result[1].ytmPct)}
    \cup {money(ctx.couponPayment, Rows[p].couponPayment) : p \in DOMAIN Rows}
    \cup {money(RunningInterest(ctx.couponPayment, p), Rows[p].cumulativeInterest) :
              p \in DOMAIN Rows}
    \cup {money(input.faceValue, Rows[p].remainingPrincipal) :
              p \in DOMAIN Rows \ {Len(Rows)}}

\* r is a whole number of steps
IsSteps(r, scale) == Eq(r, Div(MathRound(Mul(r, Whole(scale))), Whole(scale)))

\* v lies exactly halfway between two steps (and is small enough to count in)
Halfway(v, unit) ==
    /\ IsFinite(v) /\ ~IsZero(v) /\ Lt(Abs(v), Whole(1000))
    /\ FracPart(Mul(v, Whole(unit))) = <<>>
    /\ IsOdd(IntPart(Mul(v, Whole(unit))))

\* the whole number of steps in r
Steps(r, scale) ==
    IF r.neg THEN -NatOfMag(IntPart(MathRound(Mul(Abs(r), Whole(scale)))), 1)
    ELSE NatOfMag(IntPart(MathRound(Mul(r, Whole(scale)))), 1)

\* the odd number of half steps in |v|, for v halfway between two steps
HalfSteps(v, scale) == NatOfMag(IntPart(Mul(Abs(v), Whole(2 * scale))), 1)

\* the neighbouring step farther from zero, and the one towards +Infinity
StepAway(v, scale) ==
    IF v.neg THEN -((HalfSteps(v, scale) + 1) \div 2)
    ELSE (HalfSteps(v, scale) + 1) \div 2

StepUp(v, scale) ==
    IF v.neg THEN -((HalfSteps(v, scale) - 1) \div 2)
    ELSE (HalfSteps(v, scale) + 1) \div 2

\* C12 as stated: money is reported in whole cents and yields in whole
\* millionths, and a value exactly halfway between two steps, positive or
\* negative, is reported as the step farther from zero.
C12_AsStated ==
    Returned =>
        \A o \in RoundedOutputs :
            /\ IsSteps(o.r, o.scale)
            /\ Halfway(o.v, o.unit) => Steps(o.r, o.scale) = StepAway(o.v, o.scale)

\* C12: money is reported in whole cents and yields in whole millionths; a
\* value exactly halfway between two steps is reported as the step towards
\* +Infinity: farther from zero when positive, nearer to zero when negative.
C12_RoundHalfUp ==
    Returned =>
        \A o \in RoundedOutputs :
            /\ IsSteps(o.r, o.scale)
            /\ Halfway(o.v, o.unit) => Steps(o.r, o.scale) = StepUp(o.v, o.scale)

\* a returned record whose premium or discount is a negative half cent
C12_Witness ==
    /\ Returned
    /\ \E o \in RoundedOutputs : Halfway(o.v, o.unit) /\ o.v.neg
    /\ Steps(result[1].premiumDiscountAmount, 100) = -12

\* Math.max(-0.95, couponRateDecimal / frequencyPerYear) for the context c
GuessFor(c) ==
    IF Lt(Div(c.couponRateDecimal, Whole(c.frequencyPerYear)), Dec(-95, 2))
    THEN Dec(-95, 2)
    ELSE Div(c.couponRateDecimal, Whole(c.frequencyPerYear))

\* v is in (-0.999999, 10] or is the initial guess
NewtonValue(v) ==
    \/ Gt(v, Dec(-999999, 6)) /\ Le(v, Whole(10))
    \/ v = GuessFor(ctx)

\* the derivative and the next iterate at x, as lines 95 and 98 compute them
DerivativeAt(y) ==
    derivativePriceFromPeriodicYield(y, ctx.couponPayment, input.faceValue, ctx.totalPeriods)

NextAfter(y, fx, dfx) == Sub(y, Div(fx, dfx))

\* the Newton pass at x breaks out of the loop
NewtonAborts(dfx, next) ==
    \/ ~IsFinite(dfx)
    \/ Lt(Abs(dfx), Dec(1, 12))
    \/ ~IsFinite(next)
    \/ Le(next, Dec(-999999, 6))
    \/ Gt(next, Whole(10))

PhaseOrder ==
    /\ pc = "newton" => phase = "newton" /\ NewtonValue(x) /\ (i = 0 => x = GuessFor(ctx))
    /\ pc \in {"expand", "bisect"} => phase = "bisection"
    /\ (pc = "solved" /\ phase = "newton") => NewtonValue(periodicYtm)

PhaseStep ==
    /\ (pc = "idle" /\ pc' \notin {"rejected", "failed"}) =>
           pc' = "newton" /\ phase' = "newton" /\ i' = 0 /\ x' = GuessFor(ctx')
    /\ (pc = "newton" /\ pc' = "solved") =>
           \/ Lt(Abs(Residual(x)), Dec(1, 10)) /\ periodicYtm' = x
           \/ /\ periodicYtm' = NextAfter(x, Residual(x), DerivativeAt(x))
              /\ Lt(Abs(Sub(periodicYtm', x)), Dec(1, 12))
    /\ (pc = "newton" /\ pc' = "bracket") =>
           \/ NewtonAborts(DerivativeAt(x), NextAfter(x, Residual(x), DerivativeAt(x)))
           \/ i' = 50
    /\ pc = "bracket" => pc' = "expand" /\ phase' = "bisection"
    /\ pc' \in {"expand", "bisect"} => pc \in {"bracket", "expand", "bisect"}
    /\ phase = "bisection" => phase' = "bisection" /\ pc' # "newton" /\ x' = x

\* C13: solvePeriodicYtm starts in the Newton loop with x = max(-0.95,
\* couponRateDecimal / frequencyPerYear); the Newton loop returns only on
\* |residual| < 1e-10 (returning x) or |next - x| < 1e-12 (returning next); the
\* bracket is set up only after a break of the Newton loop or after its 50
\* passes; once the bracket is set up no Newton pass runs again; a value
\* returned by the Newton loop is in (-0.999999, 10] or is the initial guess.
C13_PhaseOrdering == []PhaseOrder /\ [][PhaseStep]_vars

\* the Newton loop has used all its 50 passes and the bracket is set up next
C13_Witness == pc = "bracket" /\ phase = "newton" /\ i = 50

\* the fields of the BondCalculationResult interface
ResultFields ==
    {"inputs", "annualCouponAmount", "couponPayment", "totalPeriods",
     "currentYieldPct", "ytmPct", "totalInterestEarned", "tradingStatus",
     "premiumDiscountAmount", "cashFlowSchedule"}

\* the doubling loop ended at its limit of 20 with the residuals at low = -0.99
\* and at high still of one sign
NoSignChange ==
    /\ phase = "bisection"
    /\ pc \in {"expand", "bisect", "solved", "done"}
    /\ expandCount = 20
    /\ Gt(Mul(Residual(Dec(-99, 2)), fHigh), Zero)

\* the record is whole and its ytmPct is made from the solver's estimate
BuiltFrom(record, estimate) ==
    /\ DOMAIN record = ResultFields
    /\ Len(record.cashFlowSchedule) = ctx.totalPeriods
    /\ record.totalPeriods = ctx.totalPeriods
    /\ Le(Abs(Sub(record.ytmPct,
                  Mul(Mul(estimate, Whole(ctx.frequencyPerYear)), Whole(100)))),
          Dec(6, 7))

SilentStep ==
    NoSignChange =>
        /\ pc' # "failed"
        /\ pc = "expand" => pc' = "bisect"
        /\ pc = "bisect" => pc' \in {"bisect", "solved"}
        /\ (pc = "bisect" /\ pc' = "solved") =>
               periodicYtm' = Div(Add(low, high), Whole(2))
        /\ pc = "solved" =>
               pc' = "done" /\ Len(result') = 1 /\ BuiltFrom(result'[1], periodicYtm)

\* C14: when the doubling loop ends after 20 doublings with the residuals at
\* low = -0.99 and at high still of one sign, no error is raised: the error
\* state is entered only before the solver, the bisection loop runs on and
\* returns the midpoint of its bracket, and calculateBondMetrics then returns
\* a whole record whose ytmPct is made from that value.
C14_NoConvergenceError ==
    /\ [](pc = "failed" => phase = "none" /\ result = <<>>)
    /\ []((NoSignChange /\ pc = "done") => (Len(result) = 1 /\ BuiltFrom(result[1], periodicYtm)))
    /\ [][SilentStep]_vars

\* the record returned for faceValue 1, no coupon, price 150: ytmPct 104857600
C14_Witness ==
    /\ NoSignChange
    /\ pc = "done"
    /\ Returned
    /\ result[1].ytmPct = Whole(104857600)

\* the bisection loop started with residuals of opposite sign at low = -0.99
\* and at the high the doubling loop ended with (whose residual is fHigh)
OppositeSigns ==
    /\ phase = "bisection"
    /\ pc \in {"bisect", "solved"}
    /\ Lt(Mul(Residual(Dec(-99, 2)), fHigh), Zero)

\* the high the doubling loop ended with: 1 doubled expandCount times
InitialHigh == Whole(2 ^ expandCount)

\* a + b is a binary64 number, so that (a + b) / 2 is the midpoint itself:
\* the rounding error of the sum, by the error-free transformation of a sum
SumError(a, b, s, bv) == Add(Sub(a, Sub(s, bv)), Sub(b, bv))

SumIsExact(a, b) == IsZero(SumError(a, b, Add(a, b), Sub(Add(a, b), a)))

BracketKept ==
    (OppositeSigns /\ pc = "bisect") =>
        /\ Lt(low, high)
        /\ Le(Dec(-99, 2), low) /\ Le(high, InitialHigh)
        /\ fLow = Residual(low)
        /\ ~IsZero(fLow) /\ fLow.neg = Residual(Dec(-99, 2)).neg
        /\ IsZero(Residual(high)) \/ Residual(high).neg # fLow.neg

ReturnedInside ==
    (OppositeSigns /\ pc = "solved") =>
        Le(Dec(-99, 2), periodicYtm) /\ Le(periodicYtm, InitialHigh)

\* one bound moves to the computed midpoint and the other stays
BoundMoves ==
    \/ high' = Div(Add(low, high), Whole(2)) /\ low' = low
    \/ low' = Div(Add(low, high), Whole(2)) /\ high' = high

\* the new width is half the old one, in real numbers
HalvesExactly ==
    (OppositeSigns /\ pc = "bisect" /\ pc' = "bisect") =>
        BoundMoves /\ SumIsExact(low, high)

\* the new width is half the old one up to the rounding of the midpoint
HalvesRounded ==
    (OppositeSigns /\ pc = "bisect" /\ pc' = "bisect") =>
        /\ BoundMoves
        /\ Le(low, low') /\ Le(high', high)
        /\ Le(Abs(Sub(Mul(Whole(2), Sub(high', low')), Sub(high, low))),
              Mul(Dec(1, 15), Max(Whole(1), high)))

\* C15 as stated: in a bisection loop that started with residuals of opposite
\* sign, after every pass low < high, the residual at low keeps its sign, the
\* residual at high has the other sign or is zero, fLow is the residual at
\* low, high - low is exactly half of what it was, and the value returned is
\* inside the initial bracket.
C15_AsStated == []BracketKept /\ []ReturnedInside /\ [][HalvesExactly]_vars

\* C15: in a bisection loop that started with residuals of opposite sign,
\* after every pass low < high, the residual at low keeps its sign, the
\* residual at high has the other sign or is zero, fLow is the residual at
\* low, one bound has moved to the computed midpoint so that high - low is half
\* of what it was up to the rounding of that midpoint, and the value returned
\* is inside the initial bracket.
C15_BracketInvariant == []BracketKept /\ []ReturnedInside /\ [][HalvesRounded]_vars

\* the bracket has shrunk to two neighbouring numbers around the root and the
\* loop is in its last pass
C15_Witness ==
    /\ OppositeSigns
    /\ pc = "bisect"
    /\ i = 199
    /\ Div(Add(low, high), Whole(2)) \in {low, high}

\* the calendar date months whole months after the calendar date sd, with
\* the day of sd kept unless the month reached is shorter, and then its last
\* day
MonthsLater(sd, months) ==
    LET count == sd.y * 12 + (sd.m - 1) + months
        last  == DaysInMonth(count \div 12, (count % 12) + 1)
    IN  [kind |-> "iso", y |-> count \div 12, m |-> (count % 12) + 1,
         d |-> IF sd.d > last THEN last ELSE sd.d]

\* calendar date a is before calendar date b
DateBefore(a, b) ==
    \/ a.y < b.y
    \/ a.y = b.y /\ a.m < b.m
    \/ a.y = b.y /\ a.m = b.m /\ a.d < b.d

\* C16: with the settlement date the record reports, the paymentDate of
\* every period t in 1..N is that date t x (12 / frequency) whole months
\* later, with the settlement's day of the month unless the month reached is
\* shorter, and then that month's last day; every row is counted from the
\* settlement date itself, so a shortened row does not change the day of a
\* later row; the payment dates increase strictly with t.
C16_PaymentDates ==
    Returned =>
        /\ \A t \in DOMAIN Rows :
               Rows[t].paymentDate =
                   MonthsLater(result[1].inputs.settlementDate,
                               t * (12 \div ctx.frequencyPerYear))
        /\ \A t \in DOMAIN Rows \ {1} :
               DateBefore(Rows[t - 1].paymentDate, Rows[t].paymentDate)
====
